---- MODULE Spec2Model ----
(***************************************************************************)
(* Model of the LeetCode tool server (src/main.py): the identifier         *)
(* normaliser, the paginated slug resolver, the description fetcher and    *)
(* the solution fetcher, each as a state machine whose steps are the       *)
(* program's await points (one outbound HTTP request, or one file-system   *)
(* lookup, per step).                                                      *)
(*                                                                         *)
(* A Python string is a sequence of tokens.  Text that the program         *)
(* inspects character by character (folder names, paths, problem           *)
(* identifiers, file contents) has one token per character; text that is   *)
(* only compared or passed on as a whole (slugs, sentinels, article        *)
(* bodies) is a single opaque token.  The CJK characters of the source are *)
(* written as their code points ("U9762" is one character).                *)
(***************************************************************************)
EXTENDS Integers, Sequences, FiniteSets, TLC

(***************************************************************************)
(* Bounds of the exploration.                                              *)
(***************************************************************************)
\* longest folder name enumerated exhaustively for the normaliser
MaxLen == 4
\* most questions the modelled server puts in one page
MaxQuestions == 2
\* most pages the resolver is followed through (the code has no page cap)
MaxPages == 2
\* most articles the modelled server puts in one listing
MaxArticles == 2
\* nesting depth at which the interpreter raises RecursionError (scaled down)
RecursionLimit == 2

(***************************************************************************)
(* Python string primitives, on sequences of characters.                   *)
(***************************************************************************)

\* s[k:] for a 0-based k with 0 <= k <= len(s)
SliceFrom(s, k) == SubSeq(s, k + 1, Len(s))

\* s.startswith(sub)
StartsWith(s, sub) == Len(sub) <= Len(s) /\ SubSeq(s, 1, Len(sub)) = sub

\* s.find(sub): the lowest 0-based index at which sub occurs, -1 if none
Find(s, sub) ==
    LET hits == { i \in 0..(Len(s) - Len(sub)) : StartsWith(SliceFrom(s, i), sub) }
    IN  IF hits = {} THEN -1 ELSE CHOOSE i \in hits : \A j \in hits : i <= j

\* sub in s
Contains(s, sub) == Find(s, sub) # -1

\* s.replace(old, new) for a non-empty old: occurrences are taken left to
\* right and do not overlap
RECURSIVE Replace(_, _, _)
Replace(s, old, new) ==
    IF Len(s) < Len(old) THEN s
    ELSE IF StartsWith(s, old)
         THEN new \o Replace(SliceFrom(s, Len(old)), old, new)
         ELSE <<Head(s)>> \o Replace(Tail(s), old, new)

(***************************************************************************)
(* Literals of _folder_name_to_problem_id.                                 *)
(***************************************************************************)
JZOffer     == <<"J", "Z", "_", "O", "f", "f", "e", "r">>
JZOfferCN   == <<"U5251", "U6307", "O", "f", "f", "e", "r">>
Interview   == <<"I", "n", "t", "e", "r", "v", "i", "e", "w">>
InterviewCN == <<"U9762", "U8BD5", "U9898">>

\* a slip in the order of the replacements: single underscores first
FolderNameToProblemIdSwapped(folder_name) ==
    LET q0 == SliceFrom(folder_name, Find(folder_name, <<"_">>) + 1)
        q1 == IF Contains(q0, <<"_">>) THEN Replace(q0, <<"_">>, <<" ">>) ELSE q0
        q2 == IF Contains(q1, <<"_", "_">>) THEN Replace(q1, <<"_", "_">>, <<".">>) ELSE q1
        q3 == IF Contains(q2, JZOffer) THEN Replace(q2, JZOffer, JZOfferCN) ELSE q2
        q4 == IF Contains(q3, Interview) THEN Replace(q3, Interview, InterviewCN) ELSE q3
    IN  q4

\* _folder_name_to_problem_id
FolderNameToProblemId(folder_name) ==
    LET q0 == SliceFrom(folder_name, Find(folder_name, <<"_">>) + 1)
        q1 == IF Contains(q0, <<"_", "_">>) THEN Replace(q0, <<"_", "_">>, <<".">>) ELSE q0
        q2 == IF Contains(q1, <<"_">>) THEN Replace(q1, <<"_">>, <<" ">>) ELSE q1
        q3 == IF Contains(q2, JZOffer) THEN Replace(q2, JZOffer, JZOfferCN) ELSE q2
        q4 == IF Contains(q3, Interview) THEN Replace(q3, Interview, InterviewCN) ELSE q3
    IN  q4

(***************************************************************************)
(* Values.  A text is a sequence of tokens; Str makes a text of one opaque *)
(* token.  Null is JSON null / Python None, Missing an absent JSON key.    *)
(***************************************************************************)
Str(t) == <<t>>

Null    == Str("<null>")
Missing == Str("<missing>")
NotRun  == Str("<not run>")

NoSlugFound          == Str("No slug found")
NoDescriptionFound   == Str("No description found")
NoSolutionArticle    == Str("No solution article found")
ErrorFetchingArticle == Str("Error fetching solution article")

\* WANTED_AUTHORS: (display name, handle), in declared order
WANTED_AUTHORS ==
    << [name |-> Str("gong-shui-san-ye"), handle |-> Str("ac_oier")],
       [name |-> Str("ling-cha-shan-ai-fu"), handle |-> Str("endlesscheng")] >>

\* page_size in find_leetcode_question_slug_by_problem_id
PageSize == 100

Languages == {"zh-CN", "en"}

(***************************************************************************)
(* Paths (pathlib).  A path is a text of characters with "/" separators;   *)
(* the modelled paths are relative, with no trailing separator.            *)
(***************************************************************************)
LastSlash(p) ==
    LET hits == { i \in 1..Len(p) : p[i] = "/" }
    IN  IF hits = {} THEN 0 ELSE CHOOSE i \in hits : \A j \in hits : j <= i

\* Path(p).parent
Parent(p) == IF LastSlash(p) = 0 THEN <<".">> ELSE SubSeq(p, 1, LastSlash(p) - 1)

\* Path(p).name
Name(p) == IF p = <<".">> THEN <<>> ELSE SubSeq(p, LastSlash(p) + 1, Len(p))

FileNames == {"problem_zh.md", "problem.md"}

(***************************************************************************)
(* The local file system, as far as the program looks at it: per           *)
(* directory, the state of the two description files.  A directory's       *)
(* entry is Unknown until the program first looks into it.                 *)
(***************************************************************************)
Absent     == Str("<absent>")
Unreadable == Str("<unreadable>")
Unknown    == Str("<unknown>")

FileContents ==
    { <<"a", "LF", "b">>, <<"a", "CR", "LF", "b", "CR">> }

FileStates == {Absent, Unreadable} \cup FileContents

\* the text that open(mode='r').read() yields: universal newlines
ReadText(bytes) == Replace(Replace(bytes, <<"CR", "LF">>, <<"LF">>), <<"CR">>, <<"LF">>)

(***************************************************************************)
(* The remote server: every response it can give to each of the requests.  *)
(***************************************************************************)
SeqsUpTo(S, n) == UNION { [1..k -> S] : k \in 0..n }

\* post() raises, raise_for_status() raises, json()/['data'] raises.  Among
\* the other responses, "null_article" is {"data": {"solutionArticle": null}},
\* "null_question" is {"data": {"question": null}} and "no_question" is
\* {"data": {}}
Failures == { [kind |-> "timeout"], [kind |-> "http_error"], [kind |-> "no_data"] }

Id42 == <<"4", "2">>
Id43 == <<"4", "3">>

Questions ==
    { [questionFrontendId |-> Id42,    titleSlug |-> Str("answer-slug")],
      [questionFrontendId |-> Id42,    titleSlug |-> Str("dup-slug")],
      [questionFrontendId |-> Id43,    titleSlug |-> Str("other-slug")],
      [questionFrontendId |-> Missing, titleSlug |-> Str("no-id-slug")] }

PageResponses ==
    Failures \cup
    [ kind : {"page"},
      questions : SeqsUpTo(Questions, MaxQuestions),
      hasMore : {"true", "false", "missing"} ]

Articles ==
    { [realName |-> WANTED_AUTHORS[1].name, userSlug |-> Str("someone"),
       slug |-> Str("art-1")],
      [realName |-> Str("renamed"), userSlug |-> WANTED_AUTHORS[1].handle,
       slug |-> Str("art-2")],
      [realName |-> WANTED_AUTHORS[2].name, userSlug |-> WANTED_AUTHORS[2].handle,
       slug |-> Str("art-3")],
      [realName |-> Missing, userSlug |-> Missing, slug |-> Missing] }

ListingResponses ==
    Failures \cup [ kind : {"edges"}, edges : SeqsUpTo(Articles, MaxArticles) ]

\* the body the server holds for an article
BodyOf(article_slug) == <<"body of">> \o article_slug

ArticleResponses(article_slug) ==
    { [kind |-> "timeout"],
      [kind |-> "null_article"],
      [kind |-> "article", solutionArticle |-> [content |-> <<>>]],
      [kind |-> "article", solutionArticle |-> [content |-> BodyOf(article_slug)]] }

DescFieldValues(body) == {Missing, Null, body}

DescResponses ==
    Failures \cup
    { [kind |-> "null_question"], [kind |-> "no_question"] } \cup
    [ kind : {"question"},
      question : [ translatedContent : DescFieldValues(Str("body-zh")),
                   content : DescFieldValues(Str("body-en")) ] ]

(***************************************************************************)
(* Inputs of the tools.                                                    *)
(***************************************************************************)
ProblemIds == {Id42, Id43}

NormAlphabet == {"_", "a", "1"}

TwoSumFolder    == <<"1", "_", "T", "w", "o", "_", "S", "u", "m">>
InterviewFolder == <<"U9762", "U8BD5", "U9898", "_", "1", "7", "_", "_", "0", "1">>
LcrFolder       == <<"L", "C", "R", "_", "I", "n", "t", "e", "r", "v", "i", "e", "w",
                     "_", "1", "7", "_", "_", "0", "1">>
OfferFolder     == <<"x", "_", "J", "Z", "_", "O", "f", "f", "e", "r", "_", "0", "3">>

\* folder names given to the normaliser: all short ones, and the examples
FolderNames ==
    SeqsUpTo(NormAlphabet, MaxLen) \cup
    { TwoSumFolder, InterviewFolder, LcrFolder, OfferFolder, Interview \o Interview }

FilePaths ==
    { <<"p", "/", "1", "_", "4", "2", "/", "s">>,
      <<"s">> }


Dirs == { Parent(p) : p \in FilePaths } \cup { <<".">> }

UnknownDir == [ n \in FileNames |-> Unknown ]

(***************************************************************************)
(* State.                                                                  *)
(***************************************************************************)
VARIABLES
    LANGUAGE,             \* the process-wide language setting
    op,                   \* the tool (or function) that was invoked
    arg,                  \* its argument
    pc,                   \* where the invocation stands
    outcome,              \* "running", "returned" or "raised"
    result,               \* the value returned, or the exception raised
    depth,                \* nested get_leetcode_question_desc invocations
    file_path,            \* file_path of the innermost of them
    frontend_problem_id,  \* the resolver's argument
    page_no,              \* the resolver's page counter
    pages,                \* history: the page requests of a slug tool
    npage,                \* page requests issued by the invocation in all
    slug,                 \* the slug a fetcher works on
    author,               \* index into WANTED_AUTHORS of the author loop
    articles,             \* the listing being scanned
    article,              \* index in it of the article being fetched
    reqs,                 \* the listing, article and description requests
    fs                    \* the file system as seen so far

vars == << LANGUAGE, op, arg, pc, outcome, result, depth, file_path,
           frontend_problem_id, page_no, pages, npage, slug, author,
           articles, article, reqs, fs >>

resolverVars == << frontend_problem_id, page_no >>
fetcherVars  == << slug, author, articles, article >>

SlugOps     == {"find_leetcode_question_slug_by_problem_id", "find_leetcode_question_slug"}
SolutionOps == {"get_leetcode_question_solution_by_problem_id", "get_leetcode_question_solution"}
DescOps     == {"get_leetcode_question_desc_by_problem_id", "get_leetcode_question_desc"}
ByPathOps   == {"find_leetcode_question_slug", "get_leetcode_question_solution",
                "get_leetcode_question_desc"}
ToolOps     == SlugOps \cup SolutionOps \cup DescOps

ArgsOf(o) ==
    IF o = "_folder_name_to_problem_id" THEN FolderNames
    ELSE IF o \in ByPathOps THEN FilePaths ELSE ProblemIds

\* LANGUAGE is read by the description fetcher alone; elsewhere it keeps its
\* default
LanguagesOf(o) == IF o \in DescOps THEN Languages ELSE {"zh-CN"}

InitOf(ops) ==
    /\ op \in ops
    /\ LANGUAGE \in LanguagesOf(op)
    /\ arg \in ArgsOf(op)
    /\ pc = "call"
    /\ outcome = "running"
    /\ result = NotRun
    /\ depth = IF op = "get_leetcode_question_desc" THEN 1 ELSE 0
    /\ file_path = IF op = "get_leetcode_question_desc" THEN arg ELSE <<>>
    /\ frontend_problem_id = <<>>
    /\ page_no = 0
    /\ pages = <<>>
    /\ npage = 0
    /\ slug = <<>>
    /\ author = 0
    /\ articles = <<>>
    /\ article = 0
    /\ reqs = <<>>
    /\ fs = [ d \in Dirs |-> UnknownDir ]

\* return v to the caller of the tool
Return(v) ==
    /\ outcome' = "returned"
    /\ result' = v
    /\ pc' = "done"

\* an exception leaves the tool
Raise(e) ==
    /\ outcome' = "raised"
    /\ result' = Str(e)
    /\ pc' = "done"

\* enter the resolver's loop
StartResolver(keyword) ==
    /\ frontend_problem_id' = keyword
    /\ page_no' = 0
    /\ pages' = <<>>
    /\ pc' = "page"


(***************************************************************************)
(* _folder_name_to_problem_id, called on its own.                          *)
(***************************************************************************)
Normalize ==
    /\ op = "_folder_name_to_problem_id"
    /\ pc = "call"
    /\ Return(FolderNameToProblemId(arg))
    /\ UNCHANGED << LANGUAGE, op, arg, depth, file_path, resolverVars, pages,
                    npage, fetcherVars, reqs, fs >>

(***************************************************************************)
(* find_leetcode_question_slug_by_problem_id.                              *)
(***************************************************************************)

\* the "skip" variable of a page request, forgetting the page size
SkipOfPageNo(n) == n

\* the "skip" variable of the request for page number n
SkipOf(n) == n * PageSize

\* the for loop over a page's questions, keeping the last match instead of
\* returning at the first
RECURSIVE ScanQuestionsLast(_, _)
ScanQuestionsLast(questions, keyword) ==
    IF questions = <<>> THEN [t |-> "none"]
    ELSE LET question == Head(questions)
             later == ScanQuestionsLast(Tail(questions), keyword)
         IN  IF question.questionFrontendId = Missing THEN [t |-> "raise"]
             ELSE IF question.questionFrontendId = keyword /\ later.t = "none"
                  THEN IF question.titleSlug = Missing
                       THEN [t |-> "raise"]
                       ELSE [t |-> "return", v |-> question.titleSlug]
                  ELSE later

\* the for loop over a page's questions: the first match is returned, a
\* question without the inspected key raises
RECURSIVE ScanQuestions(_, _)
ScanQuestions(questions, keyword) ==
    IF questions = <<>> THEN [t |-> "none"]
    ELSE LET question == Head(questions)
         IN  IF question.questionFrontendId = Missing THEN [t |-> "raise"]
             ELSE IF question.questionFrontendId = keyword
                  THEN IF question.titleSlug = Missing
                       THEN [t |-> "raise"]
                       ELSE [t |-> "return", v |-> question.titleSlug]
                  ELSE ScanQuestions(Tail(questions), keyword)

\* one iteration of the while loop, given the response to its request
PageStep(resp, keyword) ==
    IF resp.kind # "page" THEN [t |-> "raise"]
    ELSE LET scan == ScanQuestions(resp.questions, keyword)
         IN  IF scan.t # "none" THEN scan
             ELSE IF resp.hasMore = "missing" THEN [t |-> "raise"]
             ELSE IF resp.hasMore = "true" THEN [t |-> "continue"]
             ELSE [t |-> "break"]

\* the value the resolver returns after a step that ends its loop
ResolverValue(step) == IF step.t = "return" THEN step.v ELSE NoSlugFound

\* the resolver's value goes to get_leetcode_question_solution_by_problem_id
\* without the test for the sentinel
ResolverReturnsUnchecked(v) ==
    IF op \in SlugOps
    THEN /\ Return(v)
         /\ UNCHANGED << depth, file_path, fetcherVars >>
    ELSE /\ slug' = v
         /\ author' = 1
         /\ pc' = "listing"
         /\ UNCHANGED << outcome, result, depth, file_path, articles, article >>

\* the resolver hands v to the operation that awaited it
ResolverReturns(v) ==
    IF op \in SlugOps
    THEN /\ Return(v)
         /\ UNCHANGED << depth, file_path, fetcherVars >>
    ELSE IF op \in SolutionOps
    THEN IF v = NoSlugFound
         THEN /\ Return(NoSolutionArticle)
              /\ slug' = v
              /\ UNCHANGED << depth, file_path, author, articles, article >>
         ELSE /\ slug' = v
              /\ author' = 1
              /\ pc' = "listing"
              /\ UNCHANGED << outcome, result, depth, file_path, articles, article >>
    ELSE \* get_leetcode_question_desc calls itself with the resolver's value
         IF depth >= RecursionLimit
         THEN /\ Raise("RecursionError")
              /\ slug' = v
              /\ UNCHANGED << depth, file_path, author, articles, article >>
         ELSE /\ depth' = depth + 1
              /\ file_path' = v
              /\ slug' = v
              /\ pc' = "desc_entry"
              /\ UNCHANGED << outcome, result, author, articles, article >>

FetchPage ==
    /\ pc = "page"
    /\ page_no < MaxPages
    /\ \E resp \in PageResponses :
          LET req  == [ skip |-> SkipOf(page_no), limit |-> PageSize,
                        searchKeyword |-> frontend_problem_id, resp |-> resp ]
              step == PageStep(resp, frontend_problem_id)
          IN  /\ npage' = npage + 1
              /\ pages' = IF op \in SlugOps THEN Append(pages, req) ELSE pages
              /\ IF step.t = "continue"
                 THEN /\ page_no' = page_no + 1
                      /\ UNCHANGED << pc, outcome, result, depth, file_path,
                                      fetcherVars >>
                 ELSE /\ page_no' = page_no
                      /\ ResolverReturns(ResolverValue(step))
    /\ UNCHANGED << LANGUAGE, op, arg, frontend_problem_id, reqs, fs >>

CallFindSlugById ==
    /\ op = "find_leetcode_question_slug_by_problem_id"
    /\ pc = "call"
    /\ StartResolver(arg)
    /\ UNCHANGED << LANGUAGE, op, arg, outcome, result, depth, file_path, npage,
                    fetcherVars, reqs, fs >>

\* find_leetcode_question_slug
CallFindSlug ==
    /\ op = "find_leetcode_question_slug"
    /\ pc = "call"
    /\ StartResolver(FolderNameToProblemId(Name(Parent(arg))))
    /\ UNCHANGED << LANGUAGE, op, arg, outcome, result, depth, file_path, npage,
                    fetcherVars, reqs, fs >>

(***************************************************************************)
(* get_leetcode_question_solution_by_problem_id and                        *)
(* get_leetcode_question_solution.                                         *)
(***************************************************************************)

\* the test of line 318 with "and" for "or"
MatchesBoth(art, a) == art.realName = a.name /\ art.userSlug = a.handle

\* profile["realName"] == author_name or profile["userSlug"] == author_slug
Matches(art, a) == art.realName = a.name \/ art.userSlug = a.handle

\* an edge whose node/author/profile path or keys are absent
Malformed(art) == art.realName = Missing

\* the first position from i on at which the for loop over the articles
\* stops: an article that raises or one that matches; 0 when it runs out
ScanFrom(edges, i, a) ==
    LET stops == { j \in i..Len(edges) : Malformed(edges[j]) \/ Matches(edges[j], a) }
    IN  IF stops = {} THEN 0 ELSE CHOOSE j \in stops : \A k \in stops : j <= k

\* the author loop ending at the first failed author
NextAuthorGivesUp ==
    /\ Return(ErrorFetchingArticle)
    /\ UNCHANGED << slug, author, articles, article >>

\* the author loop moves on (after the articles ran out, or an exception)
NextAuthor ==
    IF author = Len(WANTED_AUTHORS)
    THEN /\ Return(ErrorFetchingArticle)
         /\ UNCHANGED << slug, author, articles, article >>
    ELSE /\ author' = author + 1
         /\ articles' = <<>>
         /\ article' = 0
         /\ pc' = "listing"
         /\ UNCHANGED << slug, outcome, result >>

\* the for loop over the articles, from position i to its next await
ContinueScan(edges, i) ==
    LET j == ScanFrom(edges, i, WANTED_AUTHORS[author])
    IN  IF j = 0 THEN NextAuthor
        ELSE IF Malformed(edges[j]) THEN NextAuthor
        ELSE /\ articles' = edges
             /\ article' = j
             /\ pc' = "article"
             /\ UNCHANGED << slug, author, outcome, result >>

FetchListing ==
    /\ pc = "listing"
    /\ \E resp \in ListingResponses :
          LET req == [ operationName |-> "questionTopicsList", questionSlug |-> slug,
                       userInput |-> WANTED_AUTHORS[author].name,
                       author |-> author, resp |-> resp ]
          IN  /\ reqs' = Append(reqs, req)
              /\ IF resp.kind # "edges" THEN NextAuthor
                 ELSE ContinueScan(resp.edges, 1)
    /\ UNCHANGED << LANGUAGE, op, arg, depth, file_path, resolverVars, pages,
                    npage, fs >>

\* _get_leetcode_article: the content, or None
GetLeetcodeArticle(resp) ==
    IF resp.kind \in {"timeout", "http_error", "no_data"} THEN Null
    ELSE IF resp.kind = "null_article" THEN Null
    ELSE IF resp.solutionArticle.content = Missing THEN Null
    ELSE resp.solutionArticle.content

\* Python truth of an optional string
Truthy(content) == content # Null /\ content # <<>>

FetchArticle ==
    /\ pc = "article"
    /\ \E resp \in ArticleResponses(articles[article].slug) :
          LET req == [ operationName |-> "discussTopic", slug |-> articles[article].slug,
                       author |-> author, index |-> article, resp |-> resp ]
              content == GetLeetcodeArticle(resp)
          IN  /\ reqs' = Append(reqs, req)
              /\ IF Truthy(content)
                 THEN /\ Return(content)
                      /\ UNCHANGED << slug, author, articles, article >>
                 ELSE ContinueScan(articles, article + 1)
    /\ UNCHANGED << LANGUAGE, op, arg, depth, file_path, resolverVars, pages,
                    npage, fs >>

CallSolutionById ==
    /\ op = "get_leetcode_question_solution_by_problem_id"
    /\ pc = "call"
    /\ StartResolver(arg)
    /\ UNCHANGED << LANGUAGE, op, arg, outcome, result, depth, file_path, npage,
                    fetcherVars, reqs, fs >>

\* get_leetcode_question_solution
CallSolution ==
    /\ op = "get_leetcode_question_solution"
    /\ pc = "call"
    /\ StartResolver(FolderNameToProblemId(Name(Parent(arg))))
    /\ UNCHANGED << LANGUAGE, op, arg, outcome, result, depth, file_path, npage,
                    fetcherVars, reqs, fs >>

InitSol == InitOf(SolutionOps)
NextSol == CallSolutionById \/ CallSolution \/ FetchPage \/ FetchListing \/ FetchArticle
SpecSol == InitSol /\ [][NextSol]_vars

(***************************************************************************)
(* get_leetcode_question_desc, get_leetcode_question_desc_by_problem_id    *)
(* and _get_leetcode_question_desc_by_slug.                                *)
(***************************************************************************)

\* resp_key
RespKey(language) == IF language = "zh-CN" THEN "translatedContent" ELSE "content"

\* operationName of the description request
DescOperation(language) ==
    IF language = "zh-CN" THEN "questionTranslations" ELSE "questionContent"

\* the value _get_leetcode_question_desc_by_slug returns for a response
DescBySlug(resp, language) ==
    IF resp.kind # "question" THEN NoDescriptionFound
    ELSE LET field == resp.question[RespKey(language)]
         IN  IF field = Missing THEN NoDescriptionFound ELSE field

FetchDesc ==
    /\ pc = "desc"
    /\ \E resp \in DescResponses :
          /\ reqs' = Append(reqs, [ operationName |-> DescOperation(LANGUAGE),
                                    titleSlug |-> slug, resp |-> resp ])
          /\ Return(DescBySlug(resp, LANGUAGE))
    /\ UNCHANGED << LANGUAGE, op, arg, depth, file_path, resolverVars, pages,
                    npage, fetcherVars, fs >>

\* get_leetcode_question_desc_by_problem_id: the identifier is passed on as
\* the slug
CallDescById ==
    /\ op = "get_leetcode_question_desc_by_problem_id"
    /\ pc = "call"
    /\ slug' = arg
    /\ pc' = "desc"
    /\ UNCHANGED << LANGUAGE, op, arg, outcome, result, depth, file_path,
                    resolverVars, pages, npage, author, articles, article,
                    reqs, fs >>

\* the file get_leetcode_question_desc probes, with the two names exchanged
CacheFileNameSwapped(language) ==
    IF language = "zh-CN" THEN "problem.md" ELSE "problem_zh.md"

\* problem_file_name
CacheFileName(language) == IF language = "zh-CN" THEN "problem_zh.md" ELSE "problem.md"

\* get_leetcode_question_desc, from its entry to its first await: the
\* sibling file is returned if it exists, else the resolver is entered (by
\* way of find_leetcode_question_slug)
DescEntry ==
    /\ op = "get_leetcode_question_desc"
    /\ pc \in {"call", "desc_entry"}
    /\ LET dir_path == Parent(file_path)
       IN  \E seen \in [FileNames -> FileStates] :
              LET files == IF fs[dir_path] = UnknownDir THEN seen ELSE fs[dir_path]
                  file  == files[CacheFileName(LANGUAGE)]
              IN  /\ fs' = [fs EXCEPT ![dir_path] = files]
                  /\ IF file = Absent
                     THEN /\ StartResolver(FolderNameToProblemId(Name(dir_path)))
                          /\ UNCHANGED << outcome, result >>
                     ELSE /\ IF file = Unreadable
                             THEN Raise("OSError")
                             ELSE Return(ReadText(file))
                          /\ UNCHANGED << resolverVars, pages >>
    /\ UNCHANGED << LANGUAGE, op, arg, depth, file_path, npage, fetcherVars, reqs >>

InitDesc == InitOf(DescOps)
NextDesc == CallDescById \/ DescEntry \/ FetchPage \/ FetchDesc
SpecDesc == InitDesc /\ [][NextDesc]_vars

Init == InitOf(ToolOps)
Next ==
    \/ CallFindSlugById \/ CallFindSlug \/ CallSolutionById \/ CallSolution
    \/ CallDescById \/ DescEntry \/ FetchPage \/ FetchListing \/ FetchArticle
    \/ FetchDesc
Spec == Init /\ [][Next]_vars

InitSlug == InitOf(SlugOps)
NextSlug == CallFindSlugById \/ CallFindSlug \/ FetchPage
SpecSlug == InitSlug /\ [][NextSlug]_vars

InitNorm == InitOf({"_folder_name_to_problem_id"})
NextNorm == Normalize
SpecNorm == InitNorm /\ [][NextNorm]_vars


(***************************************************************************)
(* The identifier normaliser (C9).                                         *)
(***************************************************************************)

\* step 1 of the reference transform: what follows the first "_", the
\* whole name when there is none
RECURSIVE RefAfterFirstUnderscore(_)
RefAfterFirstUnderscore(s) ==
    IF \A i \in 1..Len(s) : s[i] # "_" THEN s
    ELSE IF Head(s) = "_" THEN Tail(s)
    ELSE RefAfterFirstUnderscore(Tail(s))

\* step 2: every "__" becomes ".", read from the left
RECURSIVE RefDots(_)
RefDots(s) ==
    IF Len(s) < 2 THEN s
    ELSE IF s[1] = "_" /\ s[2] = "_" THEN <<".">> \o RefDots(Tail(Tail(s)))
    ELSE <<s[1]>> \o RefDots(Tail(s))

\* step 3: every "_" left becomes a space
RefSpaces(s) == [ i \in 1..Len(s) |-> IF s[i] = "_" THEN " " ELSE s[i] ]

\* steps 4 and 5: every occurrence of a word is replaced (the words at hand
\* do not overlap themselves, so the occurrences are read from the right)
RECURSIVE RefWord(_, _, _)
RefWord(s, word, new) ==
    IF Len(s) < Len(word) THEN s
    ELSE IF SubSeq(s, Len(s) - Len(word) + 1, Len(s)) = word
         THEN RefWord(SubSeq(s, 1, Len(s) - Len(word)), word, new) \o new
         ELSE RefWord(SubSeq(s, 1, Len(s) - 1), word, new) \o <<s[Len(s)]>>

RefTransform(s) ==
    RefWord(RefWord(RefSpaces(RefDots(RefAfterFirstUnderscore(s))),
                    <<"J", "Z", "_", "O", "f", "f", "e", "r">>,
                    <<"U5251", "U6307", "O", "f", "f", "e", "r">>),
            <<"I", "n", "t", "e", "r", "v", "i", "e", "w">>,
            <<"U9762", "U8BD5", "U9898">>)

\* C9: _folder_name_to_problem_id never raises and its value is the
\* reference transform of the folder name (first "_" and what precedes it
\* dropped, "__" to ".", "_" to space, "JZ_Offer" and "Interview" to their
\* Chinese forms); "1_Two_Sum" gives "Two Sum" and the folder of interview question 17__01 gives "17.01".
C9_NormalizerIsReferenceTransform ==
    (op = "_folder_name_to_problem_id" /\ pc = "done") =>
        /\ outcome = "returned"
        /\ result = RefTransform(arg)
        /\ arg = <<"1", "_", "T", "w", "o", "_", "S", "u", "m">>
              => result = <<"T", "w", "o", " ", "S", "u", "m">>
        /\ arg = <<"U9762", "U8BD5", "U9898", "_", "1", "7", "_", "_", "0", "1">>
              => result = <<"1", "7", ".", "0", "1">>

C9_Witness ==
    /\ op = "_folder_name_to_problem_id"
    /\ outcome = "returned"
    /\ arg = LcrFolder
    /\ result = <<"U9762", "U8BD5", "U9898", " ", "1", "7", ".", "0", "1">>

(***************************************************************************)
(* The slug resolver (C3, C4).                                             *)
(***************************************************************************)

\* the questions of the pages received so far, in page order and then in
\* the order of the page
RECURSIVE QuestionsOf(_)
QuestionsOf(log) ==
    IF log = <<>> THEN <<>>
    ELSE QuestionsOf(SubSeq(log, 1, Len(log) - 1)) \o
         ( IF log[Len(log)].resp.kind = "page"
           THEN log[Len(log)].resp.questions ELSE <<>> )

\* the positions of the questions whose questionFrontendId is the input
MatchPositions(qs, keyword) == { i \in 1..Len(qs) : qs[i].questionFrontendId = keyword }

\* the responses so far are all pages whose questions have their keys and
\* that say whether there are more
AllPagesWellFormed(log) ==
    /\ \A k \in 1..Len(log) :
          /\ log[k].resp.kind = "page"
          /\ log[k].resp.hasMore \in {"true", "false"}
    /\ \A i \in 1..Len(QuestionsOf(log)) :
          /\ QuestionsOf(log)[i].questionFrontendId # Missing
          /\ QuestionsOf(log)[i].titleSlug # Missing

\* C3: when the pages were all well formed, the resolver returns the
\* titleSlug of the first question (page order, then order within the page)
\* whose questionFrontendId equals the input, and "No slug found" when the
\* pages up to the one with hasMore=false hold no such question; one page
\* with hasMore=false holding {"42", "answer-slug"} gives "answer-slug" for
\* "42" and "No slug found" for "43".
C3_FirstMatchOrNoSlugFound ==
    (op \in SlugOps /\ pc = "done") =>
        LET qs == QuestionsOf(pages)
            ms == MatchPositions(qs, frontend_problem_id)
        IN  /\ outcome = "returned"
            /\ (AllPagesWellFormed(pages) /\ ms # {}) =>
                   \E m \in ms : /\ \A j \in ms : m <= j
                                  /\ result = qs[m].titleSlug
            /\ ( /\ AllPagesWellFormed(pages)
                 /\ ms = {}
                 /\ pages[Len(pages)].resp.hasMore = "false" ) =>
                   result = <<"No slug found">>
            /\ ( /\ Len(pages) = 1
                 /\ pages[1].resp = [ kind |-> "page", hasMore |-> "false",
                                      questions |-> << [ questionFrontendId |-> <<"4", "2">>,
                                                         titleSlug |-> <<"answer-slug">> ] >> ] ) =>
                   /\ frontend_problem_id = <<"4", "2">> => result = <<"answer-slug">>
                   /\ frontend_problem_id = <<"4", "3">> => result = <<"No slug found">>

C3_Witness ==
    /\ op = "find_leetcode_question_slug"
    /\ outcome = "returned"
    /\ Len(pages) = 2
    /\ pages[1].resp.kind = "page"
    /\ Len(pages[1].resp.questions) = 2
    /\ pages[2].resp.kind = "page"
    /\ Len(pages[2].resp.questions) = 2
    /\ pages[2].resp.questions[1].titleSlug = <<"dup-slug">>
    /\ pages[2].resp.questions[2].titleSlug = <<"answer-slug">>
    /\ result = <<"dup-slug">>

\* a page after which the resolver asks for the next one: it arrived, held
\* no question with the input's identifier, and reported hasMore=true
Continues(p) ==
    /\ p.resp.kind = "page"
    /\ \A i \in 1..Len(p.resp.questions) :
          /\ p.resp.questions[i].questionFrontendId # Missing
          /\ p.resp.questions[i].questionFrontendId # p.searchKeyword
    /\ p.resp.hasMore = "true"

\* a page whose request failed: in transport, or in the shape of the part
\* of the response the resolver reads
Failed(p) ==
    \/ p.resp.kind # "page"
    \/ /\ p.resp.kind = "page"
       /\ \E i \in 1..Len(p.resp.questions) :
             /\ p.resp.questions[i].questionFrontendId = Missing
             /\ \A j \in 1..(i - 1) :
                   p.resp.questions[j].questionFrontendId # p.searchKeyword
    \/ /\ p.resp.kind = "page"
       /\ \A i \in 1..Len(p.resp.questions) :
             p.resp.questions[i].questionFrontendId \notin {Missing, p.searchKeyword}
       /\ p.resp.hasMore = "missing"

\* C4: the k-th page request carries skip = 100*(k-1) and limit = 100; a
\* request follows only a page that arrived, held no match and reported
\* hasMore=true; the resolver ends at the first page that does not, and
\* after a failed page the result is "No slug found".
C4_PaginationProtocol ==
    op \in SlugOps =>
        /\ npage = Len(pages)
        /\ \A k \in 1..Len(pages) :
              /\ pages[k].skip = 100 * (k - 1)
              /\ pages[k].limit = 100
              /\ pages[k].searchKeyword = frontend_problem_id
        /\ \A k \in 1..(Len(pages) - 1) : Continues(pages[k])
        /\ (pages # <<>> /\ ~Continues(pages[Len(pages)])) => pc = "done"
        /\ (pages # <<>> /\ Failed(pages[Len(pages)])) =>
              (outcome = "returned" /\ result = <<"No slug found">>)

C4_Witness ==
    /\ op = "find_leetcode_question_slug_by_problem_id"
    /\ outcome = "returned"
    /\ Len(pages) = 2
    /\ pages[2].skip = 100
    /\ pages[1].resp.questions # <<>>
    /\ pages[2].resp.kind = "http_error"
    /\ result = <<"No slug found">>


(***************************************************************************)
(* The solution fetcher (C5, C6, C10).                                     *)
(***************************************************************************)
IsListing(r) == r.operationName = "questionTopicsList"
IsContent(r) == r.operationName = "discussTopic"

ListingPositions == { i \in 1..Len(reqs) : IsListing(reqs[i]) }
ContentPositions == { i \in 1..Len(reqs) : IsContent(reqs[i]) }

\* the article request at position i brought a non-empty content
GotContent(i) ==
    /\ IsContent(reqs[i])
    /\ reqs[i].resp.kind = "article"
    /\ reqs[i].resp.solutionArticle.content \notin {Null, Missing, <<>>}

\* the rank of the listing request at position l among those at lp
RankIn(lp, l) == Cardinality({ m \in lp : m <= l })

\* the position of the listing request that follows the one at position l,
\* or the end of the log
NextIn(lp, l) ==
    LET later == { m \in lp : m > l }
    IN  IF later = {} THEN Len(reqs) + 1
        ELSE CHOOSE m \in later : \A n \in later : m <= n

\* the articles of a listing that the claim says are tried for the author
\* of rank k: those whose realName is the author's display name or whose
\* userSlug is the author's handle, as far as the edges can be read
TriedPositions(edges, k) ==
    LET readable == { j \in 1..Len(edges) : \A b \in 1..j : edges[b].realName # Missing }
    IN  { j \in readable :
             \/ edges[j].realName = WANTED_AUTHORS[k].name
             \/ edges[j].userSlug = WANTED_AUTHORS[k].handle }

\* C5: the k-th listing request is for the k-th author of WANTED_AUTHORS;
\* the article requests after a listing are for its matching articles, in
\* the order of the listing and without gaps; the result is the content of
\* the first article request that brought a non-empty content and that
\* request is the last one issued; when none did, every author was asked
\* and the result is "Error fetching solution article".
C5_AuthorsAndArticlesInOrder ==
    (op \in SolutionOps /\ reqs # <<>>) =>
        LET lp == ListingPositions
        IN  /\ 1 \in lp
            /\ \A l \in lp :
                  LET k == RankIn(lp, l)
                      next == NextIn(lp, l)
                      n == next - l - 1
                      done == \/ next <= Len(reqs)
                              \/ /\ pc = "done"
                                 /\ result = <<"Error fetching solution article">>
                  IN  /\ k <= Len(WANTED_AUTHORS)
                      /\ reqs[l].userInput = WANTED_AUTHORS[k].name
                      /\ reqs[l].questionSlug = slug
                      /\ reqs[l].resp.kind # "edges" => n = 0
                      /\ reqs[l].resp.kind = "edges" =>
                            LET edges == reqs[l].resp.edges
                                tried == TriedPositions(edges, k)
                            IN  /\ n <= Cardinality(tried)
                                /\ done => n = Cardinality(tried)
                                /\ \A t \in 1..n :
                                      \E j \in tried :
                                         /\ Cardinality({ x \in tried : x <= j }) = t
                                         /\ IsContent(reqs[l + t])
                                         /\ reqs[l + t].slug = edges[j].slug
            /\ \A i \in 1..(Len(reqs) - 1) : ~GotContent(i)
            /\ GotContent(Len(reqs)) =>
                  /\ outcome = "returned"
                  /\ result = reqs[Len(reqs)].resp.solutionArticle.content
            /\ (pc = "done" /\ ~GotContent(Len(reqs))) =>
                  /\ outcome = "returned"
                  /\ result = <<"Error fetching solution article">>
                  /\ Cardinality(lp) = Len(WANTED_AUTHORS)

C5_Witness ==
    /\ op = "get_leetcode_question_solution"
    /\ outcome = "returned"
    /\ Len(reqs) = 3
    /\ reqs[1].resp.kind = "edges"
    /\ Len(reqs[1].resp.edges) = 2
    /\ reqs[1].resp.edges[1].slug = <<"art-2">>
    /\ reqs[1].resp.edges[2].slug = <<"art-1">>
    /\ reqs[2].slug = <<"art-2">>
    /\ reqs[2].resp.kind = "article"
    /\ reqs[3].slug = <<"art-1">>
    /\ result = <<"body of", "art-1">>

\* C6: when the resolver yields "No slug found" the operation returns
\* "No solution article found" and has issued no listing request and no
\* article request.
C6_NoSlugShortCircuits ==
    (op \in SolutionOps /\ slug = <<"No slug found">>) =>
        /\ outcome = "returned"
        /\ result = <<"No solution article found">>
        /\ reqs = <<>>

C6_Witness ==
    /\ op = "get_leetcode_question_solution_by_problem_id"
    /\ slug = <<"No slug found">>
    /\ npage = 2
    /\ result = <<"No solution article found">>

\* a request for the author of rank k failed: the listing request, the
\* reading of its response, or an article fetch
FailedRequestFor(k) ==
    \E i \in 1..Len(reqs) :
       /\ reqs[i].author = k
       /\ reqs[i].resp.kind \in {"timeout", "http_error", "no_data"}

\* the reading of the listing of the author of rank k raised at an edge
FailedEdgeFor(k) ==
    \E l \in ListingPositions :
       /\ reqs[l].author = k
       /\ reqs[l].resp.kind = "edges"
       /\ \E b \in 1..Len(reqs[l].resp.edges) : reqs[l].resp.edges[b].realName = Missing
       /\ \A i \in ContentPositions : reqs[i].author = k => ~GotContent(i)

\* no author is asked for a listing twice, no article of a listing fetched
\* twice
NotRetried ==
    /\ Cardinality({ reqs[l].author : l \in ListingPositions })
          = Cardinality(ListingPositions)
    /\ Cardinality({ <<reqs[i].author, reqs[i].index>> : i \in ContentPositions })
          = Cardinality(ContentPositions)

LaterContentIsReturned ==
    \A i \in ContentPositions : GotContent(i) =>
       (outcome = "returned" /\ result = reqs[i].resp.solutionArticle.content)

\* C10 as stated: after a failed request for one author, nothing is
\* retried, the next author is still queried, and a non-empty article of a
\* later author is the result.
C10_AsStated ==
    (op \in SolutionOps /\ pc = "done") =>
        /\ NotRetried
        /\ \A k \in 1..(Len(WANTED_AUTHORS) - 1) :
              FailedRequestFor(k) =>
                 \E l \in ListingPositions : reqs[l].author = k + 1
        /\ LaterContentIsReturned

\* C10, amended: after a failed request for one author nothing is retried
\* and the operation goes on: the next author is still queried, unless a
\* later matching article of the same listing brought the non-empty content
\* that is returned; a non-empty article of a later author is the result.
C10_FailureDoesNotEndTheLoop ==
    (op \in SolutionOps /\ pc = "done") =>
        /\ NotRetried
        /\ \A k \in 1..(Len(WANTED_AUTHORS) - 1) :
              (FailedRequestFor(k) \/ FailedEdgeFor(k)) =>
                 \/ \E l \in ListingPositions : reqs[l].author = k + 1
                 \/ /\ GotContent(Len(reqs))
                    /\ reqs[Len(reqs)].author = k
                    /\ \E i \in 1..(Len(reqs) - 1) :
                          /\ reqs[i].author = k
                          /\ reqs[i].resp.kind = "timeout"
                          /\ IsContent(reqs[i])
        /\ LaterContentIsReturned

C10_Witness ==
    /\ op = "get_leetcode_question_solution_by_problem_id"
    /\ outcome = "returned"
    /\ Len(reqs) = 4
    /\ reqs[1].resp.kind = "edges"
    /\ reqs[2].author = 1
    /\ reqs[2].resp.kind = "timeout"
    /\ IsListing(reqs[3])
    /\ reqs[3].author = 2
    /\ reqs[4].slug = <<"art-3">>
    /\ result = <<"body of", "art-3">>


(***************************************************************************)
(* The description fetcher (C2, C7, C8).                                   *)
(***************************************************************************)
IsDescription(r) == r.operationName \in {"questionTranslations", "questionContent"}

DescriptionPositions == { i \in 1..Len(reqs) : IsDescription(reqs[i]) }

\* the state of the language-selected file next to the path the tool was
\* given: problem_zh.md for "zh-CN", otherwise problem.md
SiblingCacheFile ==
    fs[Parent(arg)][IF LANGUAGE = "zh-CN" THEN "problem_zh.md" ELSE "problem.md"]

\* a text with its line endings read as Python's text mode reads them
RECURSIVE UniversalNewlines(_)
UniversalNewlines(bytes) ==
    IF bytes = <<>> THEN <<>>
    ELSE IF Head(bytes) = "CR"
         THEN <<"LF">> \o UniversalNewlines(
                  IF Len(bytes) >= 2 /\ bytes[2] = "LF" THEN Tail(Tail(bytes))
                  ELSE Tail(bytes))
         ELSE <<Head(bytes)>> \o UniversalNewlines(Tail(bytes))

\* no description file exists in any directory the tool has looked into
NoCacheFileAnywhere ==
    \A d \in DOMAIN fs : \A n \in FileNames : fs[d][n] \in {Absent, Unknown}

\* C2 as stated (here with no description file in the working directory
\* either, and a resolver that found a slug): without a sibling cache file,
\* get_leetcode_question_desc runs the resolver on the folder-derived
\* identifier only, issues one description request for the slug, returns
\* what _get_leetcode_question_desc_by_slug gives for that request, and
\* issues no page request once the description request is out.
C2_AsStated ==
    ( /\ op = "get_leetcode_question_desc"
      /\ SiblingCacheFile = Absent
      /\ NoCacheFileAnywhere
      /\ slug # <<"No slug found">> ) =>
        /\ pc = "page" =>
              /\ frontend_problem_id = FolderNameToProblemId(Name(Parent(arg)))
              /\ DescriptionPositions = {}
        /\ pc = "done" =>
              /\ outcome = "returned"
              /\ Cardinality(DescriptionPositions) = 1
              /\ reqs[Len(reqs)].titleSlug = slug
              /\ result = DescBySlug(reqs[Len(reqs)].resp, LANGUAGE)

SelectedField(resp) ==
    IF LANGUAGE = "zh-CN" THEN resp.question.translatedContent ELSE resp.question.content

\* a description response that is a transport or a shape failure
ShapeOrTransportFailure(resp) ==
    \/ resp.kind \in {"timeout", "http_error", "no_data", "no_question", "null_question"}
    \/ /\ resp.kind = "question"
       /\ SelectedField(resp) \in {Missing, Null}

\* C8 as stated: every transport or shape failure of the description
\* response (non-success status, data/question/content key absent, null
\* question object, null selected content field) gives exactly
\* "No description found".
C8_AsStated ==
    ( /\ op = "get_leetcode_question_desc_by_problem_id"
      /\ pc = "done"
      /\ ShapeOrTransportFailure(reqs[Len(reqs)].resp) ) =>
        /\ outcome = "returned"
        /\ result = <<"No description found">>

(***************************************************************************)
(* All tools (C1).                                                         *)
(***************************************************************************)

\* C1 as stated: whatever the server and the file system do, an invocation
\* of a tool that ends, ends by returning a string.
C1_AsStated ==
    (op \in ToolOps /\ pc = "done") =>
        /\ outcome = "returned"
        /\ result # Null

====
